---- MODULE Spec2Model ----
(***************************************************************************)
(* Anomaly-detection pipeline of shinsei-api-python.                       *)
(*                                                                         *)
(* The repository holds the pipeline twice: src/app.py (the Flask          *)
(* process, with try/except around the pipeline and int()-truncated        *)
(* statistics) and src/detector_anomalias.py (the importable module, no    *)
(* try/except, float statistics).  app.py does not import the module, so   *)
(* a running program is one or the other: the variable impl says which.    *)
(*                                                                         *)
(* Numbers.  A Python float is modelled exactly, as an integer number of   *)
(* 1/Escala units; Escala is divisible by every denominator the means,     *)
(* medians and quartiles of the bounded inputs produce, so no rounding is  *)
(* modelled (IEEE rounding error is outside the model).  A severity is a   *)
(* plain integer, a percentage is an integer number of hundredths.         *)
(*                                                                         *)
(* Left out: the text fields (veiculo, chassis, sugestao), which no        *)
(* decision reads, and desvio_padrao (a square root).                      *)
(***************************************************************************)
EXTENDS Integers, Sequences, FiniteSets, TLC

\* ------------------------------------------------------------- bounds
\* Longest current batch that is enumerated.
MaxCargas == 3
\* The historical sets enumerated have 0, MinHistorico - 1, or
\* MinHistorico .. MinHistorico + HistExtra records.
HistExtra == 1
\* Number of request threads in the concurrent specification.
NThreads == 2

\* ------------------------------------------------- program constants
\* len(cargas) < 3
MinCargas == 3
\* len(historico_cliente) >= 10
MinHistorico == 10
\* 'severidade': 90
SeveridadeHistorico == 90
\* return 50
SeveridadeNeutra == 50

Threads == 1 .. NThreads

\* ------------------------------------------------------------ numbers
Abs(x) == IF x >= 0 THEN x ELSE -x

RECURSIVE MDC(_, _)
MDC(a, b) == IF b = 0 THEN a ELSE MDC(b, a % b)

MMC(a, b) == (a * b) \div MDC(a, b)

RECURSIVE MMCIntervalo(_, _)
MMCIntervalo(a, b) == IF a > b THEN 1 ELSE MMC(a, MMCIntervalo(a + 1, b))

\* Units per 1.0: divisible by 4 (quartile interpolation), by 2 (median) and
\* by every batch and history length that a mean is taken over.
Escala ==
    4 * MMC(MMCIntervalo(1, MaxCargas),
            MMCIntervalo(MinHistorico, MinHistorico + HistExtra))

\* Truncating division, b > 0 (Python's int() of a quotient).
TruncDiv(a, b) == IF a >= 0 THEN a \div b ELSE -((-a) \div b)

\* Python int(x) for a float x held in 1/Escala units; the result is kept in
\* the same units.
int(x) == TruncDiv(x, Escala) * Escala

RECURSIVE Soma(_)
Soma(s) == IF s = <<>> THEN 0 ELSE Head(s) + Soma(Tail(s))

RECURSIVE Minimo(_)
Minimo(s) ==
    IF Len(s) = 1 THEN s[1]
    ELSE LET m == Minimo(Tail(s)) IN IF s[1] < m THEN s[1] ELSE m

RECURSIVE Maximo(_)
Maximo(s) ==
    IF Len(s) = 1 THEN s[1]
    ELSE LET m == Maximo(Tail(s)) IN IF s[1] > m THEN s[1] ELSE m

Ordenar(s) == SortSeq(s, LAMBDA a, b: a < b)

\* np.mean: exact, the sum of multiples of Escala divided by a length that
\* divides Escala.
Media(s) == Soma(s) \div Len(s)

\* np.median
Mediana(s) ==
    LET o == Ordenar(s)
        n == Len(s)
    IN  IF n % 2 = 1 THEN o[(n + 1) \div 2]
        ELSE (o[n \div 2] + o[n \div 2 + 1]) \div 2

\* np.percentile(s, 25 * k), linear interpolation between order statistics:
\* virtual index (n - 1) * k / 4, counted from 0.
Percentil(s, k) ==
    LET o == Ordenar(s)
        n == Len(s)
        lo == ((n - 1) * k) \div 4
        fr == ((n - 1) * k) % 4
    IN  IF fr = 0 THEN o[lo + 1]
        ELSE o[lo + 1] + ((o[lo + 2] - o[lo + 1]) * fr) \div 4

\* Python round(k / n * 100, 2), in hundredths: nearest, ties to even.
Round2(k, n) ==
    LET q == (10000 * k) \div n
        r == (10000 * k) % n
    IN  IF 2 * r < n THEN q
        ELSE IF 2 * r > n THEN q + 1
        ELSE IF q % 2 = 0 THEN q ELSE q + 1

\* ------------------------------------------------------------- values
Nulo == [nulo |-> TRUE]

\* What a record holds under CARGAS_VALOR: nothing (key absent), a number,
\* JSON null, a string that is not a number, or something float() turns
\* into a non-finite float (the string 'nan' or 'inf', a NaN).
Ausente == [tipo |-> "ausente"]
Num(k) == [tipo |-> "num", v |-> k]
ValorNulo == [tipo |-> "nulo"]
Texto == [tipo |-> "texto"]
NaoFinito == [tipo |-> "nan"]

\* float(c.get('CARGAS_VALOR', 0)): 0.0 for an absent key, the number for a
\* number, TypeError for None, ValueError for a non-numeric string, and a
\* float that is not finite (finito = FALSE, v unused) for 'nan'.
float(bruto) ==
    CASE bruto.tipo = "ausente" -> [ok |-> TRUE, v |-> 0, finito |-> TRUE]
      [] bruto.tipo = "num" ->
            [ok |-> TRUE, v |-> bruto.v * Escala, finito |-> TRUE]
      [] bruto.tipo = "nan" -> [ok |-> TRUE, v |-> 0, finito |-> FALSE]
      [] bruto.tipo = "nulo" -> [ok |-> FALSE, exc |-> "TypeError"]
      [] OTHER -> [ok |-> FALSE, exc |-> "ValueError"]

\* [float(c.get('CARGAS_VALOR', 0)) for c in cargas]: the first record that
\* does not coerce raises; finito says whether every float is finite.
RECURSIVE extrair_valores(_)
extrair_valores(cargas) ==
    IF cargas = <<>> THEN [ok |-> TRUE, v |-> <<>>, finito |-> TRUE]
    ELSE LET f == float(Head(cargas).CARGAS_VALOR)
         IN  IF ~f.ok THEN f
             ELSE LET r == extrair_valores(Tail(cargas))
                  IN  IF ~r.ok THEN r
                      ELSE [ok |-> TRUE, v |-> <<f.v>> \o r.v,
                            finito |-> f.finito /\ r.finito]

\* --------------------------------------------------------- statistics
\* detector_anomalias.py: float statistics.
calcular_estatisticas_lib(valores) ==
    [media |-> Media(valores),
     mediana |-> Mediana(valores),
     minimo |-> Minimo(valores),
     maximo |-> Maximo(valores),
     q1 |-> Percentil(valores, 1),
     q3 |-> Percentil(valores, 3),
     iqr |-> Percentil(valores, 3) - Percentil(valores, 1)]

\* app.py: every statistic truncated by int(); iqr truncates the float
\* difference, not the difference of the truncated quartiles.
calcular_estatisticas_app(valores) ==
    [media |-> int(Media(valores)),
     mediana |-> int(Mediana(valores)),
     minimo |-> int(Minimo(valores)),
     maximo |-> int(Maximo(valores)),
     q1 |-> int(Percentil(valores, 1)),
     q3 |-> int(Percentil(valores, 3)),
     iqr |-> int(Percentil(valores, 3) - Percentil(valores, 1))]

calcular_estatisticas(i, valores) ==
    IF i = "app" THEN calcular_estatisticas_app(valores)
    ELSE calcular_estatisticas_lib(valores)

\* ------------------------------------------------------ classification
\* The fence comparisons are doubled to stay in integers:
\* valor > q3 + 1.5 * iqr  <=>  2 * valor > 2 * q3 + 3 * iqr, and
\* valor < media * 0.5     <=>  2 * valor < media.
classificar_anomalia_fronteira(valor, stats) ==
    IF 2 * valor >= 2 * stats.q3 + 3 * stats.iqr
    THEN IF valor > stats.media * 2 THEN "MUITO_ALTO" ELSE "ALTO"
    ELSE IF 2 * valor <= 2 * stats.q1 - 3 * stats.iqr
    THEN IF 2 * valor < stats.media THEN "MUITO_BAIXO" ELSE "BAIXO"
    ELSE "OUTLIER"

classificar_anomalia(valor, stats) ==
    IF 2 * valor > 2 * stats.q3 + 3 * stats.iqr
    THEN IF valor > stats.media * 2 THEN "MUITO_ALTO" ELSE "ALTO"
    ELSE IF 2 * valor < 2 * stats.q1 - 3 * stats.iqr
    THEN IF 2 * valor < stats.media THEN "MUITO_BAIXO" ELSE "BAIXO"
    ELSE "OUTLIER"

\* ------------------------------------------------------------ severity
\* 100 - ((score - min) / (max - min) * 100) is 100 * (max - score) /
\* (max - min); int() truncates it toward zero.
calcular_severidade_sem_neutro(score, todos_scores) ==
    LET min_score == Minimo(todos_scores)
        max_score == Maximo(todos_scores)
    IN  IF max_score = min_score THEN 0
        ELSE TruncDiv(100 * (max_score - score), max_score - min_score)

calcular_severidade(score, todos_scores) ==
    LET min_score == Minimo(todos_scores)
        max_score == Maximo(todos_scores)
    IN  IF max_score = min_score THEN SeveridadeNeutra
        ELSE TruncDiv(100 * (max_score - score), max_score - min_score)

\* ---------------------------------------------------------- the scorer
\* sklearn's IsolationForest is outside the repository.  The pipeline reads
\* two things from it: the labels of fit_predict and the scores of
\* score_samples.  The labels are any vector of 1 (inlier) and -1 (outlier),
\* chosen where fit_predict is called; fit_predict raises ValueError on an
\* input that holds a non-finite value.  The fitted state of the object is
\* abstracted to the centre (median) of the batch it was last fitted on, and
\* a score is minus the distance to that centre: lower is more anomalous, and
\* the scores of a batch depend on the batch the object was fitted on.
NaoTreinado == [treinado |-> FALSE]

fit(valores) == [treinado |-> TRUE, centro |-> Mediana(valores)]

score_samples(m, valores) ==
    [i \in 1 .. Len(valores) |-> -Abs(valores[i] - m.centro)]

Rotulos(n) == [1 .. n -> {-1, 1}]

\* ------------------------------------------------------------- state
VARIABLES
    impl,       \* "app" (src/app.py) or "lib" (src/detector_anomalias.py)
    modelo,     \* the fitted state of each detector object's self.modelo
    pc,         \* where each request thread is
    entrada,    \* the arguments of the call a thread runs
    predicoes,  \* the local predicoes of analisar_cargas
    resultado,  \* the result dictionary built so far (resultado_atual)
    excecao,    \* the exception that left the pipeline, "" if none
    invocou,    \* whether the call has invoked the scorer
    arg,        \* argument of a pure function under test
    ret         \* its result

vars ==
    <<impl, modelo, pc, entrada, predicoes, resultado, excecao, invocou,
      arg, ret>>

\* The process-wide objects: detector, and detector_cliente whose
\* detector_base is a second DetectorAnomalias.
Instancias == {"detector", "detector_cliente"}

instancia(e) ==
    IF e.op = "analisar_cargas" THEN "detector" ELSE "detector_cliente"

\* A list argument: None, or a list.
Nenhum == [presente |-> FALSE, itens |-> <<>>]
Lista(s) == [presente |-> TRUE, itens |-> s]

SemEntrada == [op |-> "nenhuma", cargas |-> Nenhum, historico |-> Nenhum]

\* ------------------------------------------------------ analisar_cargas
\* if not cargas or len(cargas) < 3
insuficiente_menor_que_2(cargas) ==
    ~cargas.presente \/ Len(cargas.itens) < MinCargas - 1

insuficiente(cargas) ==
    ~cargas.presente \/ Len(cargas.itens) < MinCargas

resultado_aviso ==
    [anomalias |-> <<>>, estatisticas |-> Nulo, aviso |-> "insuficiente"]

resultado_erro(exc) ==
    [anomalias |-> <<>>, estatisticas |-> Nulo, erro |-> exc]

\* The dictionary appended for record carga with raw score score.
\* valor_esperado: estatisticas['mediana'] (int() of it in app.py, where the
\* median is already truncated).
anomalia_de(i, carga, score, scores, stats) ==
    LET valor == float(carga.CARGAS_VALOR).v
    IN  [id |-> carga.ID_CARGAS,
         valor |-> valor,
         tipo |-> classificar_anomalia(valor, stats),
         severidade |-> calcular_severidade(score, scores),
         score_anomalia |-> score,
         valor_esperado |->
             IF i = "app" THEN int(stats.mediana) ELSE stats.mediana]

\* for i, (predicao, score) in enumerate(zip(predicoes, scores)), from
\* record k on: one anomaly per record labelled -1, in record order.
RECURSIVE identificar_inlier(_, _, _, _, _, _)
identificar_inlier(i, itens, preds, scores, stats, k) ==
    IF k > Len(itens) THEN <<>>
    ELSE (IF preds[k] = 1
          THEN <<anomalia_de(i, itens[k], scores[k], scores, stats)>>
          ELSE <<>>)
         \o identificar_inlier(i, itens, preds, scores, stats, k + 1)

RECURSIVE identificar(_, _, _, _, _, _)
identificar(i, itens, preds, scores, stats, k) ==
    IF k > Len(itens) THEN <<>>
    ELSE (IF preds[k] = -1
          THEN <<anomalia_de(i, itens[k], scores[k], scores, stats)>>
          ELSE <<>>)
         \o identificar(i, itens, preds, scores, stats, k + 1)

\* The return of the scored path.
montar_resultado(i, itens, preds, scores) ==
    LET stats == calcular_estatisticas(i, extrair_valores(itens).v)
        anomalias == identificar(i, itens, preds, scores, stats, 1)
    IN  [anomalias |-> anomalias,
         estatisticas |-> stats,
         total_cargas |-> Len(itens),
         total_anomalias |-> Len(anomalias),
         percentual_anomalias |-> Round2(Len(anomalias), Len(itens))]

\* Where a thread goes when analisar_cargas has returned.
depois_de_analisar(e) ==
    IF e.op = "analisar_cargas" THEN "fim" ELSE "historico"

\* ------------------------------------------------ analisar_com_historico
\* if historico_cliente and len(historico_cliente) >= 10
tem_historico_maior_que(h) == h.presente /\ Len(h.itens) >= MinHistorico - 1

tem_historico(h) == h.presente /\ Len(h.itens) >= MinHistorico

stats_historico_lib(vh) ==
    [media_historica |-> Media(vh),
     mediana_historica |-> Mediana(vh),
     max_historico |-> Maximo(vh),
     min_historico |-> Minimo(vh)]

stats_historico_app(vh) ==
    [media_historica |-> int(Media(vh)),
     mediana_historica |-> int(Mediana(vh)),
     max_historico |-> int(Maximo(vh)),
     min_historico |-> int(Minimo(vh))]

stats_historico(i, vh) ==
    IF i = "app" THEN stats_historico_app(vh) ELSE stats_historico_lib(vh)

\* any(a['id'] == carga.get('ID_CARGAS') for a in resultado_atual['anomalias'])
ja_detectado(anomalias, id) ==
    \E k \in 1 .. Len(anomalias) : anomalias[k].id = id

anomalia_historica(carga, valor, sh) ==
    [id |-> carga.ID_CARGAS,
     valor |-> valor,
     tipo |-> "FORA_DO_HISTORICO",
     severidade |-> SeveridadeHistorico,
     valor_esperado |-> sh.media_historica]

\* resultado_atual['anomalias'].append(...)
anexar_no_inicio(anomalias, a) == <<a>> \o anomalias

anexar(anomalias, a) == Append(anomalias, a)

\* if valor > stats_historico['max_historico'] * 2 ... if not ja_detectado
deve_anexar_sem_verificar(anomalias, carga, valor, sh) ==
    valor > sh.max_historico * 2

deve_anexar(anomalias, carga, valor, sh) ==
    /\ valor > sh.max_historico * 2
    /\ ~ja_detectado(anomalias, carga.ID_CARGAS)

\* for carga in cargas_atuais: the list of anomalies is appended to in
\* place, so what was appended before a record that does not coerce stays.
\* A NaN compares False with the threshold and is passed over.
RECURSIVE verificar_historico(_, _, _)
verificar_historico(itens, anomalias, sh) ==
    IF itens = <<>> THEN [ok |-> TRUE, anomalias |-> anomalias]
    ELSE LET carga == Head(itens)
             f == float(carga.CARGAS_VALOR)
         IN  IF ~f.ok
             THEN [ok |-> FALSE, exc |-> f.exc, anomalias |-> anomalias]
             ELSE verificar_historico(
                      Tail(itens),
                      IF f.finito /\ deve_anexar(anomalias, carga, f.v, sh)
                      THEN anexar(anomalias,
                                  anomalia_historica(carga, f.v, sh))
                      ELSE anomalias,
                      sh)

\* resultado_atual['comparacao_historico'] = stats_historico
com_comparacao(r, sh) ==
    [k \in DOMAIN r \cup {"comparacao_historico"} |->
        IF k = "comparacao_historico" THEN sh ELSE r[k]]

\* An exception inside the historical pass: app.py logs it and returns
\* resultado_atual as it stands; detector_anomalias.py lets it out.
falha_historico(i, r, exc) ==
    IF i = "app" THEN [pc |-> "fim", resultado |-> r, excecao |-> ""]
    ELSE [pc |-> "erro", resultado |-> Nulo, excecao |-> exc]

\* The historical pass on the baseline result r.  The histories enumerated
\* hold no non-finite value.
passo_historico(i, e, r) ==
    IF ~tem_historico(e.historico)
    THEN [pc |-> "fim", resultado |-> r, excecao |-> ""]
    ELSE LET vh == extrair_valores(e.historico.itens)
         IN  IF ~vh.ok THEN falha_historico(i, r, vh.exc)
             ELSE IF ~e.cargas.presente
             THEN falha_historico(i, r, "TypeError")
             ELSE LET sh == stats_historico(i, vh.v)
                      l == verificar_historico(e.cargas.itens,
                                               r.anomalias, sh)
                      r2 == [r EXCEPT !.anomalias = l.anomalias]
                  IN  IF ~l.ok THEN falha_historico(i, r2, l.exc)
                      ELSE [pc |-> "fim",
                            resultado |-> com_comparacao(r2, sh),
                            excecao |-> ""]

\* ------------------------------------------------------------- inputs
\* The values of a batch: numbers, of which at most one is replaced by an
\* absent key, a null, a non-numeric string or a non-finite value.
Numericos(n) == [1 .. n -> {Num(1), Num(9)}]

Especiais == {Ausente, ValorNulo, Texto, NaoFinito}

Brutos(n) ==
    Numericos(n) \cup
    {[b EXCEPT ![k] = x] : b \in Numericos(n), k \in 1 .. n, x \in Especiais}

\* Record identifiers: all distinct, or the first two records sharing one.
Padroes == {"distintos", "repetidos"}

id_de(padrao, k) == IF padrao = "repetidos" /\ k = 2 THEN 1 ELSE k

Lote(padrao, brutos) ==
    Lista([k \in 1 .. Len(brutos) |->
              [ID_CARGAS |-> id_de(padrao, k), CARGAS_VALOR |-> brutos[k]]])

Lotes ==
    {Nenhum} \cup
    UNION {{Lote(p, b) : p \in Padroes, b \in Brutos(n)} :
           n \in 0 .. MaxCargas}

\* A history of n records, all of value 1 but the first.
Historico(n, topo) ==
    Lista([k \in 1 .. n |-> [CARGAS_VALOR |-> IF k = 1 THEN topo ELSE Num(1)]])

Historicos ==
    {Nenhum} \cup
    {Historico(n, topo) :
        n \in {0, MinHistorico - 1}
              \cup (MinHistorico .. MinHistorico + HistExtra),
        topo \in {Num(4), Texto}}

Entradas ==
    {[op |-> "analisar_cargas", cargas |-> c, historico |-> Nenhum] :
        c \in Lotes}
    \cup
    {[op |-> "analisar_com_historico", cargas |-> c, historico |-> h] :
        c \in Lotes, h \in Historicos}

\* Two different full batches for the concurrent specification.
EntradasConc ==
    {[op |-> o, cargas |-> Lote("distintos", b), historico |-> Nenhum] :
        o \in {"analisar_cargas", "analisar_com_historico"},
        b \in {<<Num(1), Num(1), Num(9)>>, <<Num(9), Num(9), Num(1)>>}}

\* ------------------------------------------------------------ actions
Local(t, npc, npred, nres, nexc, ninv) ==
    /\ pc' = [pc EXCEPT ![t] = npc]
    /\ predicoes' = [predicoes EXCEPT ![t] = npred]
    /\ resultado' = [resultado EXCEPT ![t] = nres]
    /\ excecao' = [excecao EXCEPT ![t] = nexc]
    /\ invocou' = [invocou EXCEPT ![t] = ninv]

\* An exception inside analisar_cargas: app.py returns the error result,
\* detector_anomalias.py lets it out of analisar_cargas and of its caller.
FalhaBase(t, e, exc, inv) ==
    IF impl = "app"
    THEN Local(t, depois_de_analisar(e), <<>>, resultado_erro(exc), "", inv)
    ELSE Local(t, "erro", <<>>, Nulo, exc, inv)

\* A call arrives and runs analisar_cargas up to and including fit_predict,
\* the first access to the shared self.modelo; the short-batch return and
\* a failed extraction end analisar_cargas here.  A non-finite value fails
\* in int(np.mean(valores)) in app.py, before the scorer is reached, and in
\* fit_predict in detector_anomalias.py.
Iniciar(t, E) ==
    /\ pc[t] = "ocioso"
    /\ \E e \in E :
        /\ entrada' = [entrada EXCEPT ![t] = e]
        /\ IF insuficiente(e.cargas)
           THEN /\ Local(t, depois_de_analisar(e), <<>>, resultado_aviso,
                         "", FALSE)
                /\ UNCHANGED modelo
           ELSE LET x == extrair_valores(e.cargas.itens)
                IN  IF ~x.ok
                    THEN FalhaBase(t, e, x.exc, FALSE) /\ UNCHANGED modelo
                    ELSE IF ~x.finito
                    THEN /\ FalhaBase(t, e, "ValueError", impl # "app")
                         /\ UNCHANGED modelo
                    ELSE \E rot \in Rotulos(Len(x.v)) :
                            /\ modelo' =
                                 [modelo EXCEPT ![instancia(e)] = fit(x.v)]
                            /\ Local(t, "pontuar", rot, Nulo, "", TRUE)
    /\ UNCHANGED <<impl, arg, ret>>

\* score_samples on the shared self.modelo, then the loop over the labels
\* and the return of analisar_cargas.
Pontuar(t) ==
    /\ pc[t] = "pontuar"
    /\ LET e == entrada[t]
           valores == extrair_valores(e.cargas.itens).v
           scores == score_samples(modelo[instancia(e)], valores)
       IN  Local(t, depois_de_analisar(e), predicoes[t],
                 montar_resultado(impl, e.cargas.itens, predicoes[t], scores),
                 "", TRUE)
    /\ UNCHANGED <<impl, modelo, entrada, arg, ret>>

\* The historical pass of analisar_com_historico and its return.
CompararHistorico(t) ==
    /\ pc[t] = "historico"
    /\ LET p == passo_historico(impl, entrada[t], resultado[t])
       IN  Local(t, p.pc, predicoes[t], p.resultado, p.excecao, invocou[t])
    /\ UNCHANGED <<impl, modelo, entrada, arg, ret>>

\* The caller takes the result (or the exception); the thread is free again.
Responder(t) ==
    /\ pc[t] \in {"fim", "erro"}
    /\ entrada' = [entrada EXCEPT ![t] = SemEntrada]
    /\ Local(t, "ocioso", <<>>, Nulo, "", FALSE)
    /\ UNCHANGED <<impl, modelo, arg, ret>>

InitPipeline ==
    /\ modelo = [i \in Instancias |-> NaoTreinado]
    /\ pc = [t \in Threads |-> "ocioso"]
    /\ entrada = [t \in Threads |-> SemEntrada]
    /\ predicoes = [t \in Threads |-> <<>>]
    /\ resultado = [t \in Threads |-> Nulo]
    /\ excecao = [t \in Threads |-> ""]
    /\ invocou = [t \in Threads |-> FALSE]

\* One call at a time (section 5 of the design: single-threaded,
\* synchronous), on either program.
Init ==
    /\ impl \in {"app", "lib"}
    /\ InitPipeline
    /\ arg = Nulo
    /\ ret = Nulo

Next ==
    \/ Iniciar(1, Entradas)
    \/ Pontuar(1)
    \/ CompararHistorico(1)
    \/ Responder(1)

Spec == Init /\ [][Next]_vars

\* ------------------------------------------- concurrent specification
\* The Flask process (app.py): request threads share detector and
\* detector_cliente, and a thread can be suspended between fit_predict and
\* score_samples.
InitConc ==
    /\ impl = "app"
    /\ InitPipeline
    /\ arg = Nulo
    /\ ret = Nulo

NextConc ==
    \E t \in Threads :
        \/ Iniciar(t, EntradasConc)
        \/ Pontuar(t)
        \/ CompararHistorico(t)
        \/ Responder(t)

SpecConc == InitConc /\ [][NextConc]_vars

\* ------------------------------------- _classificar_anomalia on its own
\* Largest quartile and mean of the summaries enumerated; values go up to
\* twice that.
FaixaClassificar == 3

\* Summaries as calcular_estatisticas produces them: q1 <= q3, iqr >= 0
\* (in app.py iqr need not be q3 - q1).
EntradasClassificar ==
    {[valor |-> v, stats |-> [q1 |-> a, q3 |-> b, iqr |-> d, media |-> m]] :
        v \in 0 .. 2 * FaixaClassificar,
        a \in 0 .. FaixaClassificar,
        b \in 0 .. FaixaClassificar,
        d \in 0 .. FaixaClassificar,
        m \in 0 .. FaixaClassificar}

InitClassificar ==
    /\ impl = "app"
    /\ InitPipeline
    /\ arg \in {x \in EntradasClassificar : x.stats.q1 <= x.stats.q3}
    /\ ret = Nulo

AplicarClassificar ==
    /\ ret = Nulo
    /\ ret' = [v |-> classificar_anomalia(arg.valor, arg.stats)]
    /\ UNCHANGED <<impl, modelo, pc, entrada, predicoes, resultado, excecao,
                   invocou, arg>>

SpecClassificar == InitClassificar /\ [][AplicarClassificar]_vars

\* -------------------------------------- _calcular_severidade on its own
\* Longest score vector, and the scores range over -FaixaScore .. 0.
MaxScores == 3
FaixaScore == 4

EntradasSeveridade ==
    UNION {{[score |-> s[k], todos_scores |-> s] : k \in 1 .. n,
            s \in [1 .. n -> (-FaixaScore) .. 0]} : n \in 1 .. MaxScores}

InitSeveridade ==
    /\ impl = "app"
    /\ InitPipeline
    /\ arg \in EntradasSeveridade
    /\ ret = Nulo

AplicarSeveridade ==
    /\ ret = Nulo
    /\ ret' = [v |-> calcular_severidade(arg.score, arg.todos_scores)]
    /\ UNCHANGED <<impl, modelo, pc, entrada, predicoes, resultado, excecao,
                   invocou, arg>>

SpecSeveridade == InitSeveridade /\ [][AplicarSeveridade]_vars

\* ------------------------------------ _calcular_estatisticas on its own
\* Longest value vector (at most 6, so that every length divides Escala),
\* and the values range over -1 .. FaixaValores.
MaxValores == 4
FaixaValores == 3

\* valores.flatten() of a batch of MinCargas or more numeric values.
EntradasEstatisticas ==
    UNION {{[valores |-> [k \in 1 .. n |-> s[k] * Escala]] :
            s \in [1 .. n -> (-1) .. FaixaValores]} :
           n \in MinCargas .. MaxValores}

InitEstatisticas ==
    /\ impl \in {"app", "lib"}
    /\ InitPipeline
    /\ arg \in EntradasEstatisticas
    /\ ret = Nulo

AplicarEstatisticas ==
    /\ ret = Nulo
    /\ ret' = [v |-> calcular_estatisticas(impl, arg.valores)]
    /\ UNCHANGED <<impl, modelo, pc, entrada, predicoes, resultado, excecao,
                   invocou, arg>>

SpecEstatisticas == InitEstatisticas /\ [][AplicarEstatisticas]_vars

\* ============================================================ claims
\* What the claims say, stated without the operators of the model above.

\* A batch with fewer than 3 records, empty or absent.
LoteCurto(c) == ~c.presente \/ Len(c.itens) < 3

\* A historical set with fewer than 10 records, empty or absent.
HistoricoCurto(h) == ~h.presente \/ Len(h.itens) < 10

\* analisar_cargas has just returned to its caller.
AnalisouCargas(t) ==
    \/ pc[t] = "historico"
    \/ pc[t] = "fim" /\ entrada[t].op = "analisar_cargas"

\* analisar_com_historico has returned.
FinalHistorico(t) ==
    pc[t] = "fim" /\ entrada[t].op = "analisar_com_historico"

\* The labels were produced and the scored result was returned.
Pontuado(t) ==
    /\ ~LoteCurto(entrada[t].cargas)
    /\ Len(predicoes[t]) = Len(entrada[t].cargas.itens)
    /\ pc[t] \in {"historico", "fim"}

\* The number a record's value stands for (0 when it is absent).
ValorTratado(bruto) == IF bruto.tipo = "num" THEN bruto.v * Escala ELSE 0

EhFora(a) == a.tipo = "FORA_DO_HISTORICO"

IdsDistintos(a) ==
    \A i, j \in 1 .. Len(a) : i # j => a[i].id # a[j].id

\* C1: a batch of fewer than 3 records (empty and absent included) makes
\* analisar_cargas return anomalias = [], estatisticas = null and a warning,
\* and the scorer is not invoked on that call (an exception can only come
\* later, from the historical pass of analisar_com_historico).
C1_LoteInsuficiente ==
    \A t \in Threads :
        (pc[t] # "ocioso" /\ LoteCurto(entrada[t].cargas)) =>
            /\ ~invocou[t]
            /\ pc[t] \in {"historico", "fim", "erro"}
            /\ pc[t] = "erro" =>
                /\ entrada[t].op = "analisar_com_historico"
                /\ ~HistoricoCurto(entrada[t].historico)
            /\ AnalisouCargas(t) =>
                /\ resultado[t].anomalias = <<>>
                /\ resultado[t].estatisticas = Nulo
                /\ "aviso" \in DOMAIN resultado[t]
                /\ DOMAIN resultado[t] = {"anomalias", "estatisticas", "aviso"}

C1_Testemunha ==
    \E t \in Threads :
        /\ AnalisouCargas(t)
        /\ entrada[t].cargas.presente
        /\ Len(entrada[t].cargas.itens) = 2

\* C2: for a batch of 3 or more records every failure of the extraction or
\* of the scorer comes back as a result with anomalias = [], estatisticas =
\* null and an error string; no call ends with an exception.
C2_PipelineTotal ==
    \A t \in Threads :
        /\ pc[t] # "erro"
        /\ (AnalisouCargas(t) /\ ~LoteCurto(entrada[t].cargas)
              /\ ~Pontuado(t)) =>
                /\ resultado[t].anomalias = <<>>
                /\ resultado[t].estatisticas = Nulo
                /\ "erro" \in DOMAIN resultado[t]

\* C3: with two calls running concurrently, the result of each is the one
\* the call produces alone: its scores come from the model fitted on its
\* own batch.
C3_Sozinho(t) ==
    LET itens == entrada[t].cargas.itens
        valores == [k \in 1 .. Len(itens) |->
                       ValorTratado(itens[k].CARGAS_VALOR)]
    IN  montar_resultado(impl, itens, predicoes[t],
                         score_samples(fit(valores), valores))

C3_ChamadasIndependentes ==
    \A t \in Threads :
        (Pontuado(t) /\ AnalisouCargas(t)) => resultado[t] = C3_Sozinho(t)

\* C4: in the final result of analisar_com_historico no record identifier
\* appears in more than one entry of the anomaly list.
C4_SemIdRepetido ==
    \A t \in Threads :
        FinalHistorico(t) => IdsDistintos(resultado[t].anomalias)

\* C4, amended: a FORA_DO_HISTORICO entry never shares its identifier with
\* another entry, and a batch of pairwise distinct identifiers gives a list
\* of pairwise distinct identifiers; only two records that share an
\* identifier and are both labelled outlier give two entries with it.
C4_RepeticaoSoDaPontuacao ==
    \A t \in Threads :
        FinalHistorico(t) =>
            LET a == resultado[t].anomalias
                itens == entrada[t].cargas.itens
            IN  /\ \A i, j \in 1 .. Len(a) :
                       (i # j /\ a[i].id = a[j].id) =>
                           (~EhFora(a[i]) /\ ~EhFora(a[j]))
                /\ (\A i, j \in 1 .. Len(itens) :
                        i # j => itens[i].ID_CARGAS # itens[j].ID_CARGAS)
                   => IdsDistintos(a)

\* Two records share an identifier, both exceed twice the historical
\* maximum, and the historical pass has appended one entry for them.
C4_Testemunha ==
    \E t \in Threads :
        /\ FinalHistorico(t)
        /\ "comparacao_historico" \in DOMAIN resultado[t]
        /\ Len(entrada[t].cargas.itens) >= 2
        /\ entrada[t].cargas.itens[1].ID_CARGAS
             = entrada[t].cargas.itens[2].ID_CARGAS
        /\ entrada[t].cargas.itens[1].CARGAS_VALOR = Num(9)
        /\ entrada[t].cargas.itens[2].CARGAS_VALOR = Num(9)
        /\ \E k \in 1 .. Len(resultado[t].anomalias) :
              /\ EhFora(resultado[t].anomalias[k])
              /\ resultado[t].anomalias[k].id
                   = entrada[t].cargas.itens[1].ID_CARGAS

\* C5: _classificar_anomalia returns MUITO_ALTO / ALTO above the upper fence
\* (by value > 2 * mean), otherwise MUITO_BAIXO / BAIXO below the lower fence
\* (by value < 0.5 * mean), otherwise OUTLIER; a value equal to a fence is
\* OUTLIER.
C5_Tabela ==
    (ret # Nulo /\ "stats" \in DOMAIN arg) =>
        LET v == arg.valor
            st == arg.stats
            acima == 2 * v > 2 * st.q3 + 3 * st.iqr
            abaixo == 2 * v < 2 * st.q1 - 3 * st.iqr
            na_cerca == \/ 2 * v = 2 * st.q3 + 3 * st.iqr
                        \/ 2 * v = 2 * st.q1 - 3 * st.iqr
        IN  /\ (acima /\ v > 2 * st.media) => ret.v = "MUITO_ALTO"
            /\ (acima /\ ~(v > 2 * st.media)) => ret.v = "ALTO"
            /\ (~acima /\ abaixo /\ 2 * v < st.media) => ret.v = "MUITO_BAIXO"
            /\ (~acima /\ abaixo /\ ~(2 * v < st.media)) => ret.v = "BAIXO"
            /\ (~acima /\ ~abaixo) => ret.v = "OUTLIER"
            /\ na_cerca => ret.v = "OUTLIER"

\* A value on the upper fence, above twice the mean, has been classified.
C5_Testemunha ==
    /\ ret # Nulo
    /\ "stats" \in DOMAIN arg
    /\ 2 * arg.valor = 2 * arg.stats.q3 + 3 * arg.stats.iqr
    /\ arg.stats.iqr > 0
    /\ arg.valor > 2 * arg.stats.media

\* C6: for a score of the batch's score vector _calcular_severidade is an
\* integer in 0 .. 100, and exactly 50 when all the scores are equal.
C6_Severidade ==
    (ret # Nulo /\ "todos_scores" \in DOMAIN arg) =>
        /\ ret.v \in 0 .. 100
        /\ (\A i, j \in 1 .. Len(arg.todos_scores) :
                arg.todos_scores[i] = arg.todos_scores[j]) => ret.v = 50

\* Several equal scores have been normalised.
C6_Testemunha ==
    /\ ret # Nulo
    /\ "todos_scores" \in DOMAIN arg
    /\ Len(arg.todos_scores) >= 2
    /\ \A i, j \in 1 .. Len(arg.todos_scores) :
           arg.todos_scores[i] = arg.todos_scores[j]

\* The historical maximum and mean of the claims: over the numbers the
\* history's values stand for.
ValoresTratados(itens) ==
    [k \in 1 .. Len(itens) |-> ValorTratado(itens[k].CARGAS_VALOR)]

\* The list the claims expect from the historical pass: one
\* FORA_DO_HISTORICO entry, in record order, per record above twice the
\* historical maximum whose identifier is not yet in the list.
RECURSIVE AnexadasEsperadas(_, _, _, _)
AnexadasEsperadas(itens, anomalias, maxh, mediah) ==
    IF itens = <<>> THEN anomalias
    ELSE LET c == Head(itens)
             v == ValorTratado(c.CARGAS_VALOR)
         IN  AnexadasEsperadas(
                 Tail(itens),
                 IF /\ v > 2 * maxh
                    /\ \A k \in 1 .. Len(anomalias) :
                           anomalias[k].id # c.ID_CARGAS
                 THEN Append(anomalias,
                             [id |-> c.ID_CARGAS,
                              valor |-> v,
                              tipo |-> "FORA_DO_HISTORICO",
                              severidade |-> 90,
                              valor_esperado |-> mediah])
                 ELSE anomalias,
                 maxh, mediah)

\* C7: with 10 or more historical records, the historical pass appends one
\* FORA_DO_HISTORICO entry (severity 90, expected value the historical mean)
\* per record above twice the historical maximum whose identifier is not yet
\* in the list, nothing else, and attaches comparacao_historico.
C7_HistoricoAnexa ==
    [][\A t \in Threads :
          (/\ pc[t] = "historico"
           /\ pc'[t] # "historico"
           /\ ~HistoricoCurto(entrada[t].historico)) =>
              LET vh == ValoresTratados(entrada[t].historico.itens)
              IN  /\ pc'[t] = "fim"
                  /\ "comparacao_historico" \in DOMAIN resultado'[t]
                  /\ resultado'[t].anomalias =
                        AnexadasEsperadas(entrada[t].cargas.itens,
                                          resultado[t].anomalias,
                                          Maximo(vh), Media(vh))]_vars

\* C8: with an absent, empty or shorter-than-10 historical set,
\* analisar_com_historico returns the result of analisar_cargas as it is:
\* nothing appended, no comparacao_historico, no error or warning added.
C8_SemHistorico ==
    [][\A t \in Threads :
          (/\ pc[t] = "historico"
           /\ pc'[t] # "historico"
           /\ HistoricoCurto(entrada[t].historico)) =>
              /\ pc'[t] = "fim"
              /\ excecao'[t] = ""
              /\ resultado'[t] = resultado[t]
              /\ "comparacao_historico" \notin DOMAIN resultado'[t]]_vars

\* A scored batch with anomalies has gone through the historical pass with
\* a history of 9 records.
C8_Testemunha ==
    \E t \in Threads :
        /\ FinalHistorico(t)
        /\ entrada[t].historico.presente
        /\ Len(entrada[t].historico.itens) = 9
        /\ Pontuado(t)
        /\ Len(resultado[t].anomalias) >= 1

\* C9: a scored batch of 3 or more records gives one anomaly per record
\* labelled -1 and none for a record labelled 1, each with the record's
\* identifier and value; total_cargas is the number of records,
\* total_anomalias the number of anomalies and percentual_anomalias is
\* anomalies / total * 100 to the nearest hundredth.
C9_UmaPorOutlier ==
    \A t \in Threads :
        (Pontuado(t) /\ AnalisouCargas(t)) =>
            LET r == resultado[t]
                a == r.anomalias
                itens == entrada[t].cargas.itens
                O == {k \in 1 .. Len(itens) : predicoes[t][k] = -1}
            IN  /\ Len(a) = Cardinality(O)
                /\ \A k \in O :
                       LET j == Cardinality({m \in O : m <= k})
                       IN  /\ a[j].id = itens[k].ID_CARGAS
                           /\ a[j].valor = ValorTratado(itens[k].CARGAS_VALOR)
                /\ r.total_cargas = Len(itens)
                /\ r.total_anomalias = Len(a)
                /\ 2 * Abs(r.percentual_anomalias * Len(itens)
                           - 10000 * Len(a)) <= Len(itens)

\* Two of three records are labelled outlier: 66.67 percent.
C9_Testemunha ==
    \E t \in Threads :
        /\ Pontuado(t)
        /\ AnalisouCargas(t)
        /\ predicoes[t] = <<-1, 1, -1>>
        /\ resultado[t].percentual_anomalias = 6667

\* The entries of a are matched, in order, by records of itens further and
\* further down the batch.
RECURSIVE EmOrdemDosRegistros(_, _)
EmOrdemDosRegistros(a, itens) ==
    IF a = <<>> THEN TRUE
    ELSE IF itens = <<>> THEN FALSE
    ELSE IF /\ Head(a).id = Head(itens).ID_CARGAS
            /\ Head(a).valor = ValorTratado(Head(itens).CARGAS_VALOR)
         THEN EmOrdemDosRegistros(Tail(a), Tail(itens))
         ELSE EmOrdemDosRegistros(a, Tail(itens))

\* C10: in every result the anomalies of the scoring pass come first, in
\* the order of their records, and the FORA_DO_HISTORICO anomalies after
\* them, in the order of their records.
C10_Ordem ==
    \A t \in Threads :
        pc[t] \in {"historico", "fim"} =>
            LET a == resultado[t].anomalias
                itens == entrada[t].cargas.itens
                n == Cardinality({k \in 1 .. Len(a) : ~EhFora(a[k])})
            IN  /\ \A k \in 1 .. Len(a) : EhFora(a[k]) <=> k > n
                /\ EmOrdemDosRegistros(SubSeq(a, 1, n), itens)
                /\ EmOrdemDosRegistros(SubSeq(a, n + 1, Len(a)), itens)

\* One scoring-pass anomaly followed by two historical ones.
C10_Testemunha ==
    \E t \in Threads :
        /\ FinalHistorico(t)
        /\ Len(resultado[t].anomalias) = 3
        /\ ~EhFora(resultado[t].anomalias[1])
        /\ EhFora(resultado[t].anomalias[2])
        /\ EhFora(resultado[t].anomalias[3])
        /\ resultado[t].anomalias[2].id # resultado[t].anomalias[3].id

\* The k-th smallest element of s (k in 1 .. Len(s)).
Estatistica_de_ordem(s, k) ==
    CHOOSE x \in {s[i] : i \in 1 .. Len(s)} :
        /\ Cardinality({i \in 1 .. Len(s) : s[i] < x}) < k
        /\ Cardinality({i \in 1 .. Len(s) : s[i] <= x}) >= k

\* Four times the (25 * q)-th percentile of s by linear interpolation
\* between the order statistics around the position (Len(s) - 1) * q / 4.
Quatro_percentis(s, q) ==
    LET pos == (Len(s) - 1) * q
        lo == pos \div 4
        fr == pos % 4
    IN  IF fr = 0 THEN 4 * Estatistica_de_ordem(s, lo + 1)
        ELSE (4 - fr) * Estatistica_de_ordem(s, lo + 1)
               + fr * Estatistica_de_ordem(s, lo + 2)

\* The summary of a batch has been computed.
ResumoCalculado == ret # Nulo /\ "valores" \in DOMAIN arg

\* The order the summary's fields are in, and a non-negative iqr.
C11_SoOrdem ==
    ResumoCalculado =>
        /\ ret.v.minimo <= ret.v.q1
        /\ ret.v.q1 <= ret.v.mediana
        /\ ret.v.mediana <= ret.v.q3
        /\ ret.v.q3 <= ret.v.maximo
        /\ ret.v.iqr >= 0

\* C11: for a batch of 3 or more numeric values the summary returned by
\* _calcular_estatisticas has minimo <= q1 <= mediana <= q3 <= maximo and
\* iqr = q3 - q1 >= 0, q1 and q3 being the 25th and 75th percentiles by
\* linear interpolation between order statistics.
C11_ResumoOrdenado ==
    ResumoCalculado =>
        /\ C11_SoOrdem
        /\ ret.v.iqr = ret.v.q3 - ret.v.q1
        /\ 4 * ret.v.q1 = Quatro_percentis(arg.valores, 1)
        /\ 4 * ret.v.q3 = Quatro_percentis(arg.valores, 3)

\* A value that is missing: the key absent, or present and not numeric.
Faltante(bruto) == bruto.tipo \in {"ausente", "nulo", "texto"}

EhAusente(bruto) == bruto.tipo = "ausente"

\* Some record of the batch or of the history holds a value of the kind
\* Tipo, none holds a non-finite one, and the batch is a list.
TemValor(e, Tipo(_)) ==
    LET todos == e.cargas.itens \o e.historico.itens
    IN  /\ e.cargas.presente
        /\ \E k \in 1 .. Len(todos) : Tipo(todos[k].CARGAS_VALOR)
        /\ \A k \in 1 .. Len(todos) :
               \/ Tipo(todos[k].CARGAS_VALOR)
               \/ todos[k].CARGAS_VALOR.tipo = "num"

\* The call of thread t went as if every missing value were zero: no
\* exception and no error result; the summary's extremes, the value of each
\* anomaly and the historical maximum are those of the values with zero for
\* the missing ones; every record above twice that maximum is in the list.
ComoZero(t) ==
    LET e == entrada[t]
        itens == e.cargas.itens
        r == resultado[t]
    IN  /\ pc[t] # "erro"
        /\ (pc[t] \in {"historico", "fim"} /\ ~LoteCurto(e.cargas)) =>
              /\ "erro" \notin DOMAIN r
              /\ r.estatisticas # Nulo
              /\ r.estatisticas.minimo = Minimo(ValoresTratados(itens))
              /\ r.estatisticas.maximo = Maximo(ValoresTratados(itens))
              /\ \A k \in 1 .. Len(r.anomalias) :
                    \E j \in 1 .. Len(itens) :
                       /\ itens[j].ID_CARGAS = r.anomalias[k].id
                       /\ r.anomalias[k].valor
                            = ValorTratado(itens[j].CARGAS_VALOR)
        /\ (FinalHistorico(t) /\ ~HistoricoCurto(e.historico)) =>
              LET maxh == Maximo(ValoresTratados(e.historico.itens))
              IN  /\ "comparacao_historico" \in DOMAIN r
                  /\ r.comparacao_historico.max_historico = maxh
                  /\ \A j \in 1 .. Len(itens) :
                        ValorTratado(itens[j].CARGAS_VALOR) > 2 * maxh =>
                           \E k \in 1 .. Len(r.anomalias) :
                              r.anomalias[k].id = itens[j].ID_CARGAS

\* The part of C12 about an absent key alone.
C12_SoAusente ==
    \A t \in Threads : TemValor(entrada[t], EhAusente) => ComoZero(t)

\* C12: a record whose CARGAS_VALOR is absent, null or a non-numeric string
\* is analysed like any other with its value taken as zero, in feature
\* extraction, in anomaly construction and in the historical comparison.
C12_TratadoComoZero ==
    \A t \in Threads : TemValor(entrada[t], Faltante) => ComoZero(t)

\* p, in hundredths, is k / n * 100 rounded to 2 decimals (the nearest
\* hundredth).
Arredondado(p, k, n) == 2 * Abs(p * n - 10000 * k) <= n

\* C13: in every result analisar_com_historico returns, total_anomalias is
\* the length of anomalias and percentual_anomalias is that length over
\* total_cargas times 100 rounded to 2 decimals, also after the historical
\* pass has appended, and both fields are there whenever the list is not
\* empty (a batch of fewer than 3 records included).
C13_ContagensConferem ==
    \A t \in Threads :
        FinalHistorico(t) =>
            LET r == resultado[t]
                n == Len(r.anomalias)
            IN  /\ n > 0 =>
                      {"total_cargas", "total_anomalias",
                       "percentual_anomalias"} \subseteq DOMAIN r
                /\ "total_anomalias" \in DOMAIN r =>
                      /\ r.total_anomalias = n
                      /\ Arredondado(r.percentual_anomalias, n,
                                     r.total_cargas)

====
